---- MODULE Spec2Model ----
(***************************************************************************)
(* CookieClickerBot (src/examples/cookie_clicker.py): the click loop of    *)
(* run(), the purchase decision of _try_purchase() and the text parsing of *)
(* CookieClickerPage, over a browser session that returns display texts;   *)
(* managed_driver (src/utils/driver_manager.py), which opens and quits the *)
(* session; and the script src/cookie_clicker.py, which clicks and buys in *)
(* one loop of its own.                                                    *)
(*                                                                         *)
(* A text is a sequence of one-character strings.  The purchase threshold  *)
(* becomes a float after the first purchase (threshold * 1.5); it is kept  *)
(* as an exact fraction [num, den] while the float holds it exactly, and   *)
(* as the rounded double beyond.                                           *)
(***************************************************************************)
EXTENDS Integers, Sequences, FiniteSets, TLC

VARIABLES
    pc,                  \* where main() is: start, constructed, ready, running,
                         \* done, aborted, not_ready, create_failed, exited
    purchase_threshold,  \* CookieClickerBot.purchase_threshold
    click_count,         \* CookieClickerBot.click_count
    purchase_count,      \* CookieClickerBot.purchase_count
    duration,            \* run(): duration_seconds
    elapsed,             \* run(): time.time() - start_time at the last loop check
    call,                \* the _try_purchase call of the last loop iteration, if any
    clicked,             \* browser session: primary clicks that completed
    bought,              \* browser session: product clicks that completed
    progress,            \* progress lines printed by run()
    reports,             \* final statistics summaries printed, in order
    events,              \* what the last loop iteration did, in order
    checks,              \* run(): evaluations of the loop condition
    game,                \* the page: loading, ready, no_language_button, no_big_cookie
    driver,              \* managed_driver(): none, open, quit
    quits,               \* calls of driver.quit()
    raised,              \* the exception that left the body of main(), or none
    pure,                \* a function of the page under evaluation on its own
    run_calls,           \* calls of run() made on the bot
    highest_paid,        \* the highest price of the buys that completed
    counter              \* src/cookie_clicker.py: counter

vars == <<pc, purchase_threshold, click_count, purchase_count, duration,
          elapsed, call, clicked, bought, progress, reports, events, checks,
          game, driver, quits, raised, pure, run_calls, highest_paid,
          counter>>

----------------------------------------------------------------------------
(* Bounds *)

MaxClicks == 30
MaxProducts == 3
MaxDuration == 1
MaxTick == 1
MaxTextLen == 5
MaxLiveDuration == 11
MaxCadenceClicks == 100

(* Program constants *)

InitialThreshold == 10
PurchaseEvery == 10
ReportEvery == 100

----------------------------------------------------------------------------
(* Python str / int operations, on texts *)

Digits == {"0", "1", "2", "3", "4", "5", "6", "7", "8", "9"}

Whitespace == {" ", "\n"}

DigitVal(c) ==
    CASE c = "0" -> 0 [] c = "1" -> 1 [] c = "2" -> 2 [] c = "3" -> 3
      [] c = "4" -> 4 [] c = "5" -> 5 [] c = "6" -> 6 [] c = "7" -> 7
      [] c = "8" -> 8 [] c = "9" -> 9

RECURSIVE DigitsValue(_)
DigitsValue(s) ==
    IF s = <<>> THEN 0
    ELSE 10 * DigitsValue(SubSeq(s, 1, Len(s) - 1)) + DigitVal(s[Len(s)])

\* str.split(): the maximal runs of non-whitespace characters
RECURSIVE SplitFrom(_, _, _)
SplitFrom(s, i, cur) ==
    IF i > Len(s) THEN (IF cur = <<>> THEN <<>> ELSE <<cur>>)
    ELSE IF s[i] \in Whitespace
         THEN (IF cur = <<>> THEN <<>> ELSE <<cur>>) \o SplitFrom(s, i + 1, <<>>)
         ELSE SplitFrom(s, i + 1, Append(cur, s[i]))

Split(s) == SplitFrom(s, 1, <<>>)

\* str.split("\n"): the pieces between line breaks, empty pieces kept
RECURSIVE SplitLinesFrom(_, _, _)
SplitLinesFrom(s, i, cur) ==
    IF i > Len(s) THEN <<cur>>
    ELSE IF s[i] = "\n"
         THEN <<cur>> \o SplitLinesFrom(s, i + 1, <<>>)
         ELSE SplitLinesFrom(s, i + 1, Append(cur, s[i]))

SplitLines(s) == SplitLinesFrom(s, 1, <<>>)

\* str.replace(",", "")
RemoveCommas(s) == SelectSeq(s, LAMBDA c : c # ",")

\* "^2" stands for the one character SUPERSCRIPT TWO: a digit to isdigit(),
\* not a decimal to int()
OtherDigits == {"^2"}

\* str.isdigit()
IsDigit(s) == s # <<>> /\ \A i \in 1..Len(s) : s[i] \in Digits \cup OtherDigits

\* int(s) succeeds: an optional sign, then digits, single underscores between
IntBody(s) == IF s # <<>> /\ s[1] \in {"+", "-"} THEN Tail(s) ELSE s

IsIntLiteral(s) ==
    LET b == IntBody(s) IN
    /\ b # <<>>
    /\ \A i \in 1..Len(b) : b[i] \in Digits \cup {"_"}
    /\ b[1] \in Digits
    /\ b[Len(b)] \in Digits
    /\ \A i \in 1..(Len(b) - 1) : ~(b[i] = "_" /\ b[i + 1] = "_")

IntValue(s) ==
    LET v == DigitsValue(SelectSeq(IntBody(s), LAMBDA c : c # "_")) IN
    IF s[1] = "-" THEN 0 - v ELSE v

----------------------------------------------------------------------------
(* The purchase threshold: an int at first, a float after a purchase.

   A value is held as the fraction [num, den], den a power of 2, while its
   numerator is small: the float holds such a value exactly.  Beyond that it
   is held as the double itself, [man, exp] for man * 2^exp, man a natural
   number of at most 53 bits, written as the sequence of its bits, lowest
   first; a product is then rounded as IEEE 754 rounds it, to the nearest
   double, ties to the even one. *)

MantissaBits == 53

\* numerators below this are kept as fractions
FractionLimit == 2^24

RECURSIVE BitsOf(_)
BitsOf(n) == IF n = 0 THEN <<>> ELSE <<n % 2>> \o BitsOf(n \div 2)

BitAt(b, i) == IF i <= Len(b) THEN b[i] ELSE 0

RECURSIVE AddFrom(_, _, _, _)
AddFrom(a, b, i, carry) ==
    IF i > Len(a) /\ i > Len(b)
    THEN (IF carry = 1 THEN <<1>> ELSE <<>>)
    ELSE LET x == BitAt(a, i) + BitAt(b, i) + carry IN
         <<x % 2>> \o AddFrom(a, b, i + 1, x \div 2)

AddBits(a, b) == AddFrom(a, b, 1, 0)

ShiftLeft(b, k) == IF b = <<>> THEN b ELSE [i \in 1..k |-> 0] \o b

TimesThree(b) == AddBits(b, ShiftLeft(b, 1))

\* a < b, for bit sequences without leading zeros
LessBits(a, b) ==
    \/ Len(a) < Len(b)
    \/ /\ Len(a) = Len(b)
       /\ \E i \in 1..Len(a) :
             /\ a[i] < b[i]
             /\ \A j \in (i + 1)..Len(a) : a[j] = b[j]

\* the double nearest to man * 2^exp
RECURSIVE RoundToDouble(_, _)
RoundToDouble(man, exp) ==
    IF Len(man) <= MantissaBits THEN [man |-> man, exp |-> exp]
    ELSE LET k == Len(man) - MantissaBits
             kept == SubSeq(man, k + 1, Len(man))
             sticky == \E i \in 1..(k - 1) : man[i] = 1
             up == man[k] = 1 /\ (sticky \/ kept[1] = 1)
         IN  RoundToDouble(IF up THEN AddBits(kept, <<1>>) ELSE kept, exp + k)

IsDouble(t) == "man" \in DOMAIN t

RECURSIVE Log2(_)
Log2(d) == IF d <= 1 THEN 0 ELSE 1 + Log2(d \div 2)

\* float(t) of a value held as a fraction: exact
ToDouble(t) ==
    IF IsDouble(t) THEN t
    ELSE [man |-> BitsOf(t.num), exp |-> 0 - Log2(t.den)]

LessDouble(a, b) ==
    LET e == IF a.exp < b.exp THEN a.exp ELSE b.exp IN
    LessBits(ShiftLeft(a.man, a.exp - e), ShiftLeft(b.man, b.exp - e))

RECURSIVE Reduce(_, _)
Reduce(n, d) ==
    IF d > 1 /\ n % 2 = 0 THEN Reduce(n \div 2, d \div 2)
    ELSE [num |-> n, den |-> d]

Num(n) == [num |-> n, den |-> 1]

\* a fraction whose terms stay below the limit
IsSmall(t, limit) == ~IsDouble(t) /\ t.num < limit /\ t.den < limit

Less(a, b) ==
    IF IsSmall(a, 2^15) /\ IsSmall(b, 2^15)
    THEN a.num * b.den < b.num * a.den
    ELSE LessDouble(ToDouble(a), ToDouble(b))

\* max(a, b) of Python: b only if it is greater
PyMax(a, b) == IF Less(a, b) THEN b ELSE a

\* threshold * 1.5
TimesOneAndHalf(t) ==
    IF IsSmall(t, FractionLimit \div 3)
    THEN Reduce(3 * t.num, 2 * t.den)
    ELSE LET d == ToDouble(t) IN RoundToDouble(TimesThree(d.man), d.exp - 1)

\* faulty variants of the threshold update: the doubled price alone, and the
\* smaller of the two terms
NewThresholdDoubledPrice(price, t) == Num(price * 2)

NewThresholdMin(price, t) ==
    IF Less(Num(price * 2), TimesOneAndHalf(t))
    THEN Num(price * 2) ELSE TimesOneAndHalf(t)

\* max(price * 2, self.purchase_threshold * 1.5)
NewThreshold(price, t) == PyMax(Num(price * 2), TimesOneAndHalf(t))

----------------------------------------------------------------------------
(* The page: what the browser session can show *)

Cookies == <<"c", "o", "o", "k", "i", "e", "s">>

\* texts of the element with id "cookies"
CookieTexts ==
    { <<"5", " ">> \o Cookies,
      <<"1", "0", " ">> \o Cookies,
      <<"2", "5", "\n">> \o Cookies,
      <<"5", "0", " ">> \o Cookies,
      <<"1", "0", "0", " ">> \o Cookies,
      <<"3", "0", "0", " ">> \o Cookies,
      <<"1", ",", "0", "0", "0", " ">> \o Cookies,
      <<>>,
      <<" ", "\n">>,
      <<"1", ".", "5", " ", "m", "i", "l", "l", "i", "o", "n">> }

\* texts of the counter when the final summary reads it
SummaryTexts ==
    { <<"3", "0", "0", " ">> \o Cookies,
      <<"1", ",", "0", "0", "0", " ">> \o Cookies,
      <<>> }

\* the products of the page in document order, each with its text
PageTexts ==
    << <<"A", "\n", "1", "0", "0">>,
       <<"B", "\n", "2", "5", "0">>,
       <<"C", "\n", "8", "0">>,
       <<"D", "\n", "2", "5">>,
       <<"E", "\n", "1", ",", "0", "0", "0">>,
       <<"F", "\n", "?", "?", "?">>,
       <<"G", "\n", "2", "5", "0">> >>

\* texts a product element can have besides
OddTexts ==
    << <<>>,
       <<"H", "\n", "^2">>,
       <<"I", "\n", "0">>,
       <<"J", "\n", "5", "\n">>,
       <<"9", "0", "\n", "K">>,
       <<"L", "\n", "1">> >>

\* product handles are indices into this table
ProductTexts == PageTexts \o OddTexts

Products == 1..Len(ProductTexts)

None == 0

\* find_elements(".product.unlocked.enabled"): some products, in document order
RECURSIVE Sublists(_)
Sublists(n) ==
    IF n = 0 THEN {<<>>}
    ELSE LET rest == Sublists(n - 1) IN
         rest \cup {Append(l, n) : l \in rest}

ProductLists == {l \in Sublists(Len(PageTexts)) : Len(l) <= MaxProducts}

----------------------------------------------------------------------------
(* CookieClickerPage *)

\* faulty variant: the commas stay in the token
ParseCookieCountKeepCommas(text) ==
    LET parts == Split(text) IN
    IF parts = <<>> THEN [error |-> "IndexError", value |-> 0]
    ELSE IF IsIntLiteral(parts[1])
         THEN [error |-> "none", value |-> IntValue(parts[1])]
         ELSE [error |-> "ValueError", value |-> 0]

\* the try block of get_cookie_count
ParseCookieCount(text) ==
    LET parts == Split(text) IN
    IF parts = <<>> THEN [error |-> "IndexError", value |-> 0]
    ELSE LET cookie_text == RemoveCommas(parts[1]) IN
         IF IsIntLiteral(cookie_text)
         THEN [error |-> "none", value |-> IntValue(cookie_text)]
         ELSE [error |-> "ValueError", value |-> 0]

\* faulty variant: except ValueError only
get_cookie_count_ValueErrorOnly(text) ==
    LET r == ParseCookieCount(text) IN
    IF r.error = "ValueError" THEN [error |-> "none", value |-> 0] ELSE r

get_cookie_count(text) ==
    LET r == ParseCookieCount(text) IN
    IF r.error \in {"ValueError", "IndexError"}
    THEN [error |-> "none", value |-> 0]
    ELSE r

\* the try block of the loop body: the price a product shows, if any
PriceOf(product) ==
    LET text_parts == SplitLines(ProductTexts[product])
        price_text == RemoveCommas(text_parts[Len(text_parts)])
    IN  IF ~IsDigit(price_text) THEN [error |-> "none", priced |-> FALSE, price |-> 0]
        ELSE IF ~IsIntLiteral(price_text)
             THEN [error |-> "ValueError", priced |-> FALSE, price |-> 0]
             ELSE [error |-> "none", priced |-> TRUE,
                   price |-> DigitsValue(price_text)]

\* except (ValueError, IndexError): continue
CaughtInLoop == {"ValueError", "IndexError"}

\* the loop of find_most_expensive_product, from the i-th product on
RECURSIVE MostExpensiveFrom(_, _, _, _)
MostExpensiveFrom(products, i, max_price, most_expensive) ==
    IF i > Len(products)
    THEN [product |-> most_expensive, price |-> max_price, error |-> "none"]
    ELSE LET p == PriceOf(products[i]) IN
         IF p.error # "none" /\ p.error \notin CaughtInLoop
         THEN [product |-> None, price |-> 0, error |-> p.error]
         ELSE IF p.priced /\ p.price > max_price
              THEN MostExpensiveFrom(products, i + 1, p.price, products[i])
              ELSE MostExpensiveFrom(products, i + 1, max_price, most_expensive)

\* faulty variant: the loop ends at the first product without a price
RECURSIVE MostExpensiveUntilBad(_, _, _, _)
MostExpensiveUntilBad(products, i, max_price, most_expensive) ==
    IF i > Len(products) \/ ~PriceOf(products[i]).priced
    THEN [product |-> most_expensive, price |-> max_price, error |-> "none"]
    ELSE IF PriceOf(products[i]).price > max_price
         THEN MostExpensiveUntilBad(products, i + 1,
                                    PriceOf(products[i]).price, products[i])
         ELSE MostExpensiveUntilBad(products, i + 1, max_price, most_expensive)

find_most_expensive_product_Break(products) ==
    MostExpensiveUntilBad(products, 1, 0, None)

\* faulty variant: price >= max_price, so a later product of the same price
\* replaces an earlier one and a price of 0 is taken
RECURSIVE MostExpensiveLastFrom(_, _, _, _)
MostExpensiveLastFrom(products, i, max_price, most_expensive) ==
    IF i > Len(products)
    THEN [product |-> most_expensive, price |-> max_price, error |-> "none"]
    ELSE LET p == PriceOf(products[i]) IN
         IF p.priced /\ p.price >= max_price
         THEN MostExpensiveLastFrom(products, i + 1, p.price, products[i])
         ELSE MostExpensiveLastFrom(products, i + 1, max_price, most_expensive)

find_most_expensive_product_LastWins(products) ==
    MostExpensiveLastFrom(products, 1, 0, None)

find_most_expensive_product(products) ==
    MostExpensiveFrom(products, 1, 0, None)

\* faulty variants: the click is sent twice; a failed click is swallowed
purchase_upgrade_Twice(product, clickOk) ==
    IF product # None
    THEN [clicks |-> <<product, product>>,
          completed |-> IF clickOk THEN 2 ELSE 0,
          error |-> IF clickOk THEN "none" ELSE "StaleElement"]
    ELSE [clicks |-> <<>>, completed |-> 0, error |-> "none"]

purchase_upgrade_Swallow(product, clickOk) ==
    IF product # None
    THEN [clicks |-> <<product>>,
          completed |-> IF clickOk THEN 1 ELSE 0,
          error |-> "none"]
    ELSE [clicks |-> <<>>, completed |-> 0, error |-> "none"]

\* purchase_upgrade(product); clickOk: product.click() returns instead of
\* raising.  clicks: the products click() was called on; completed: how many
\* of these calls returned
purchase_upgrade(product, clickOk) ==
    IF product # None
    THEN [clicks |-> <<product>>,
          completed |-> IF clickOk THEN 1 ELSE 0,
          error |-> IF clickOk THEN "none" ELSE "StaleElement"]
    ELSE [clicks |-> <<>>, completed |-> 0, error |-> "none"]

----------------------------------------------------------------------------
(* CookieClickerBot *)

\* faulty variants: no gate; no price check
PassesGateAlways(cookies, thr) == TRUE

AffordableUnchecked(found, cookies) == found.product # None

\* cookies >= self.purchase_threshold
PassesGate(cookies, thr) == ~Less(Num(cookies), thr)

\* most_expensive and price <= cookies
Affordable(found, cookies) == found.product # None /\ found.price <= cookies

\* what a _try_purchase call leaves behind when it changes nothing
NoPurchase(thr, count, cookies, error) ==
    [threshold |-> thr, purchase_count |-> count, cookies |-> cookies,
     clicks |-> <<>>, completed |-> 0, price |-> 0, error |-> error]

\* _try_purchase, on the bot's threshold and purchase count, the text of the
\* cookie counter, the enabled products and the outcome of the product click
TryPurchase(thr, count, text, products, clickOk) ==
    LET read == get_cookie_count(text)
        cookies == read.value
    IN
    IF read.error # "none" THEN NoPurchase(thr, count, cookies, read.error)
    ELSE IF PassesGate(cookies, thr) /\ products # <<>>
    THEN LET found == find_most_expensive_product(products) IN
         IF Affordable(found, cookies)
         THEN LET buy == purchase_upgrade(found.product, clickOk) IN
              IF buy.error # "none"
              THEN [NoPurchase(thr, count, cookies, buy.error)
                        EXCEPT !.clicks = buy.clicks,
                               !.completed = buy.completed]
              ELSE [threshold |-> NewThreshold(found.price, thr),
                    purchase_count |-> count + 1,
                    cookies |-> cookies,
                    clicks |-> buy.clicks,
                    completed |-> buy.completed,
                    price |-> found.price,
                    error |-> "none"]
         ELSE NoPurchase(thr, count, cookies, "none")
    ELSE NoPurchase(thr, count, cookies, "none")

\* the product click is reached only when a product is selected
ClickOutcomes(thr, count, text, products) ==
    IF TryPurchase(thr, count, text, products, TRUE).clicks # <<>>
    THEN BOOLEAN ELSE {TRUE}

NoCall ==
    [made |-> FALSE, text |-> <<>>, products |-> <<>>,
     threshold_before |-> Num(0), purchase_count_before |-> 0,
     click_count_before |-> 0, cookies |-> 0, clicks |-> <<>>,
     error |-> "none"]

CallOf(text, products, thr, count, clicks, r) ==
    [made |-> TRUE, text |-> text, products |-> products,
     threshold_before |-> thr, purchase_count_before |-> count,
     click_count_before |-> clicks, cookies |-> r.cookies,
     clicks |-> r.clicks, error |-> r.error]

NoEval == [fn |-> "none", arg |-> <<>>, done |-> FALSE, out |-> <<>>]

\* faulty variant: the threshold starts at 0
FreshBotZeroThreshold ==
    /\ purchase_threshold = Num(0)
    /\ click_count = 0
    /\ purchase_count = 0
    /\ duration = 0
    /\ elapsed = 0
    /\ call = NoCall
    /\ clicked = 0
    /\ bought = 0
    /\ progress = 0
    /\ reports = <<>>
    /\ events = <<>>
    /\ checks = 0
    /\ game = "loading"
    /\ driver = "none"
    /\ quits = 0
    /\ raised = "none"
    /\ run_calls = 0
    /\ highest_paid = 0

\* the fields of a constructed bot (__init__), before main() has entered the
\* with block
FreshBot ==
    /\ purchase_threshold = Num(InitialThreshold)
    /\ click_count = 0
    /\ purchase_count = 0
    /\ duration = 0
    /\ elapsed = 0
    /\ call = NoCall
    /\ clicked = 0
    /\ bought = 0
    /\ progress = 0
    /\ reports = <<>>
    /\ events = <<>>
    /\ checks = 0
    /\ game = "loading"
    /\ driver = "none"
    /\ quits = 0
    /\ raised = "none"
    /\ run_calls = 0
    /\ highest_paid = 0

\* src/cookie_clicker.py: counter = 1.6
InitialCounter == [num |-> 8, den |-> 5]

Init == pc = "start" /\ FreshBot /\ pure = NoEval /\ counter = InitialCounter

botVars == <<purchase_threshold, click_count, purchase_count, highest_paid>>

runVars == <<duration, elapsed, call, clicked, bought, progress, reports,
             events, checks, run_calls>>

----------------------------------------------------------------------------
(* managed_driver *)

UpperLetters ==
    <<"A", "B", "C", "D", "E", "F", "G", "H", "I", "J", "K", "L", "M",
      "N", "O", "P", "Q", "R", "S", "T", "U", "V", "W", "X", "Y", "Z">>

LowerLetters ==
    <<"a", "b", "c", "d", "e", "f", "g", "h", "i", "j", "k", "l", "m",
      "n", "o", "p", "q", "r", "s", "t", "u", "v", "w", "x", "y", "z">>

LowerChar(c) ==
    IF \E i \in 1..Len(UpperLetters) : UpperLetters[i] = c
    THEN LowerLetters[CHOOSE i \in 1..Len(UpperLetters) : UpperLetters[i] = c]
    ELSE c

\* str.lower()
Lower(s) == [i \in 1..Len(s) |-> LowerChar(s[i])]

Chrome == <<"c", "h", "r", "o", "m", "e">>

Firefox == <<"f", "i", "r", "e", "f", "o", "x">>

\* browser names a caller may pass; main() passes 'chrome'
BrowserNames ==
    { Chrome, <<"C", "h", "r", "o", "m", "e">>, Firefox,
      <<"s", "a", "f", "a", "r", "i">> }

\* faulty variant: the name is compared as it is written
CreateDriverCaseSensitive(browser, created) ==
    IF browser = Chrome \/ browser = Firefox
    THEN IF created THEN [driver |-> "open", error |-> "none"]
         ELSE [driver |-> "none", error |-> "SessionNotCreatedException"]
    ELSE [driver |-> "none", error |-> "ValueError"]

\* the try block of managed_driver up to the yield; created: the factory
\* returned a driver instead of raising
CreateDriver(browser, created) ==
    IF Lower(browser) = Chrome \/ Lower(browser) = Firefox
    THEN IF created THEN [driver |-> "open", error |-> "none"]
         ELSE [driver |-> "none", error |-> "SessionNotCreatedException"]
    ELSE [driver |-> "none", error |-> "ValueError"]

\* with managed_driver(...) as driver: bot = CookieClickerBot(driver)
ManagedDriverEnterWith(names) ==
    /\ pc = "start"
    /\ \E browser \in names, created \in BOOLEAN :
          LET r == CreateDriver(browser, created) IN
          /\ driver' = r.driver
          /\ raised' = r.error
          /\ pc' = IF r.error = "none" THEN "constructed" ELSE "create_failed"
    /\ UNCHANGED <<botVars, runVars, game, quits, pure, counter>>

ManagedDriverEnter == ManagedDriverEnterWith(BrowserNames)

\* faulty variant: the driver is quit only when the body ends normally
QuitOnExitNoFinally(d, error) ==
    IF d # "none" /\ error = "none" THEN [driver |-> "quit", quits |-> 1]
    ELSE [driver |-> d, quits |-> 0]

\* finally: if driver: driver.quit()
QuitOnExit(d, error) ==
    IF d # "none" THEN [driver |-> "quit", quits |-> 1]
    ELSE [driver |-> d, quits |-> 0]

\* the body of the with block has ended, normally or by an exception
ManagedDriverExit ==
    /\ pc \in {"done", "aborted", "not_ready", "create_failed"}
    /\ pc' = "exited"
    /\ LET r == QuitOnExit(driver, raised) IN
          /\ driver' = r.driver
          /\ quits' = quits + r.quits
    /\ UNCHANGED <<botVars, runVars, game, raised, pure, counter>>

----------------------------------------------------------------------------
(* CookieClickerBot.setup and run *)

\* faulty variant: a wait that times out is swallowed
AfterSetupSwallow(page) == [pc |-> "ready", error |-> "none"]

\* setup(): navigate, select_language, wait_for_game_ready; a wait that times
\* out raises TimeoutException out of main()
AfterSetup(page) ==
    IF page = "ready" THEN [pc |-> "ready", error |-> "none"]
    ELSE [pc |-> "not_ready", error |-> "TimeoutException"]

Setup ==
    /\ pc = "constructed"
    /\ \E page \in {"ready", "no_language_button", "no_big_cookie"} :
          /\ game' = page
          /\ pc' = AfterSetup(page).pc
          /\ raised' = AfterSetup(page).error
    /\ UNCHANGED <<botVars, runVars, driver, quits, pure, counter>>

\* run(duration_seconds), up to the first loop check
RunStartIn(durations) ==
    /\ pc = "ready"
    /\ pc' = "running"
    /\ \E d \in durations : duration' = d
    /\ elapsed' = 0
    /\ run_calls' = run_calls + 1
    /\ UNCHANGED <<botVars, call, clicked, bought, progress, reports, events,
                   checks, game, driver, quits, raised, pure, counter>>

RunStart == RunStartIn(0..MaxDuration)

\* faulty variants of the loop condition
LoopContinuesInclusive(now, d) == now <= d

LoopContinuesAlways(now, d) == TRUE

\* time.time() - start_time < duration_seconds
LoopContinues(now, d) == now < d

\* what one pass of the loop does after the click, by the click count
EventsOf(n, error) ==
    <<"click">>
    \o (IF n % PurchaseEvery = 0 THEN <<"try_purchase">> ELSE <<>>)
    \o (IF error = "none" /\ n % ReportEvery = 0 THEN <<"report">> ELSE <<>>)

\* one pass of the while loop of run(): the loop check finds time left.
\* ticks: what the clock may have advanced by since the last check; outcomes:
\* whether a click on the page may raise; texts, lists: what the page may show
Iterate(maxClicks, ticks, outcomes, texts, lists) ==
    /\ pc = "running"
    /\ click_count < maxClicks
    /\ duration' = duration
    /\ checks' = checks + 1
    /\ \E dt \in ticks :
          /\ LoopContinues(elapsed + dt, duration)
          /\ elapsed' = elapsed + dt
    /\ \E primaryOk \in outcomes :
          IF ~primaryOk
          THEN \* click_cookie() raises
               /\ pc' = "aborted"
               /\ raised' = "WebDriverException"
               /\ call' = NoCall
               /\ events' = <<>>
               /\ UNCHANGED <<purchase_threshold, click_count, purchase_count,
                              highest_paid, clicked, bought, progress, reports>>
          ELSE LET n == click_count + 1 IN
               /\ click_count' = n
               /\ clicked' = clicked + 1
               /\ reports' = reports
               /\ IF n % PurchaseEvery = 0
                  THEN \E text \in texts, products \in lists :
                       \E clickOk \in outcomes \cap
                                  ClickOutcomes(purchase_threshold,
                                         purchase_count, text, products) :
                          LET r == TryPurchase(purchase_threshold,
                                       purchase_count, text, products, clickOk)
                          IN
                          /\ purchase_threshold' = r.threshold
                          /\ purchase_count' = r.purchase_count
                          /\ bought' = bought + r.completed
                          /\ highest_paid' = IF r.price > highest_paid
                                             THEN r.price ELSE highest_paid
                          /\ call' = CallOf(text, products, purchase_threshold,
                                            purchase_count, n, r)
                          /\ events' = EventsOf(n, r.error)
                          /\ raised' = r.error
                          /\ IF r.error # "none"
                             THEN pc' = "aborted" /\ progress' = progress
                             ELSE /\ pc' = pc
                                  /\ progress' = progress +
                                       (IF n % ReportEvery = 0 THEN 1 ELSE 0)
                  ELSE /\ call' = NoCall
                       /\ pc' = pc
                       /\ events' = EventsOf(n, "none")
                       /\ raised' = raised
                       /\ progress' = progress +
                            (IF n % ReportEvery = 0 THEN 1 ELSE 0)
                       /\ UNCHANGED <<purchase_threshold, purchase_count,
                                      highest_paid, bought>>
    /\ UNCHANGED <<game, driver, quits, pure, run_calls, counter>>

RunIteration == Iterate(MaxClicks, 0..MaxTick, BOOLEAN, CookieTexts, ProductLists)

\* _print_statistics(): the summary printed, with the cookie count read for it
Summary(clicks, purchases, text) ==
    [clicks |-> clicks, purchases |-> purchases,
     cookies |-> get_cookie_count(text).value]

\* faulty variant: the summary starts the click count over
ExitResetting(ticks, texts) ==
    /\ pc = "running"
    /\ \E dt \in ticks :
          /\ ~LoopContinues(elapsed + dt, duration)
          /\ elapsed' = elapsed + dt
    /\ checks' = checks + 1
    /\ pc' = "done"
    /\ \E text \in texts :
          reports' = Append(reports, Summary(click_count, purchase_count, text))
    /\ call' = NoCall
    /\ events' = <<>>
    /\ click_count' = 0
    /\ UNCHANGED <<purchase_threshold, purchase_count, highest_paid, duration,
                   clicked, bought, progress, game, driver, quits, raised, pure,
                   run_calls, counter>>

\* the loop check finds the duration elapsed: _print_statistics()
Exit(ticks, texts) ==
    /\ pc = "running"
    /\ \E dt \in ticks :
          /\ ~LoopContinues(elapsed + dt, duration)
          /\ elapsed' = elapsed + dt
    /\ checks' = checks + 1
    /\ pc' = "done"
    /\ \E text \in texts :
          reports' = Append(reports, Summary(click_count, purchase_count, text))
    /\ call' = NoCall
    /\ events' = <<>>
    /\ UNCHANGED <<botVars, duration, clicked, bought, progress, game, driver,
                   quits, raised, pure, run_calls, counter>>

RunExit == Exit(0..MaxTick, SummaryTexts)

Next ==
    \/ ManagedDriverEnter
    \/ Setup
    \/ RunStart
    \/ RunIteration
    \/ RunExit
    \/ ManagedDriverExit

Spec == Init /\ [][Next]_vars

----------------------------------------------------------------------------
(* run() when no call into the browser session raises and the clock advances
   between two loop checks *)

\* a page that shows little
CadenceTexts ==
    { <<"5", " ">> \o Cookies, <<"3", "0", "0", " ">> \o Cookies }

CadenceLists == { <<>>, <<1, 2, 3>> }

\* the first check may follow start_time at once; later ones follow a click
LiveTicks == IF checks = 0 THEN 0..MaxTick ELSE 1..MaxTick

LiveStart == RunStartIn(0..MaxLiveDuration)

LiveIteration ==
    Iterate(MaxClicks, LiveTicks, {TRUE}, CadenceTexts, CadenceLists)

LiveExit == Exit(LiveTicks, SummaryTexts)

LiveNext ==
    \/ ManagedDriverEnter
    \/ Setup
    \/ LiveStart
    \/ LiveIteration
    \/ LiveExit
    \/ ManagedDriverExit

\* run() is straight-line code in one thread: while it is in its loop it
\* takes the next step
LiveSpec ==
    Init /\ [][LiveNext]_vars /\ WF_vars(LiveIteration \/ LiveExit)

----------------------------------------------------------------------------
(* run() over many clicks *)

CadenceStart == RunStartIn({1})

CadenceIteration ==
    Iterate(MaxCadenceClicks, 0..MaxTick, BOOLEAN, CadenceTexts, CadenceLists)

CadenceExit == Exit(0..MaxTick, SummaryTexts)

CadenceNext ==
    \/ ManagedDriverEnter
    \/ Setup
    \/ CadenceStart
    \/ CadenceIteration
    \/ CadenceExit
    \/ ManagedDriverExit

CadenceSpec == Init /\ [][CadenceNext]_vars

----------------------------------------------------------------------------
(* run() called again on the same bot, by a caller other than main(): the
   counters of the bot carry over, start_time is taken anew *)

MaxRuns == 2
MaxRerunClicks == 20

\* faulty variant: a run starts its click count over
RunAgainResetClicksIn(durations) ==
    /\ pc \in {"done", "aborted"}
    /\ run_calls < MaxRuns
    /\ pc' = "running"
    /\ \E d \in durations : duration' = d
    /\ elapsed' = 0
    /\ checks' = 0
    /\ run_calls' = run_calls + 1
    /\ raised' = "none"
    /\ call' = NoCall
    /\ events' = <<>>
    /\ click_count' = 0
    /\ UNCHANGED <<purchase_threshold, purchase_count, highest_paid, clicked,
                   bought, progress, reports, game, driver, quits, pure,
                   counter>>

\* run(duration_seconds) once more, after a call that returned or raised
RunAgainIn(durations) ==
    /\ pc \in {"done", "aborted"}
    /\ run_calls < MaxRuns
    /\ pc' = "running"
    /\ \E d \in durations : duration' = d
    /\ elapsed' = 0
    /\ checks' = 0
    /\ run_calls' = run_calls + 1
    /\ raised' = "none"
    /\ call' = NoCall
    /\ events' = <<>>
    /\ UNCHANGED <<botVars, clicked, bought, progress, reports, game, driver,
                   quits, pure, counter>>

RerunStart == RunStartIn(0..MaxDuration)

RunAgain == RunAgainIn(0..MaxDuration)

RerunIteration ==
    Iterate(MaxRerunClicks, 0..MaxTick, BOOLEAN, CadenceTexts, CadenceLists)

RerunExit == Exit(0..MaxTick, {<<>>})

RerunNext ==
    \/ ManagedDriverEnter
    \/ Setup
    \/ RerunStart
    \/ RerunIteration
    \/ RerunExit
    \/ RunAgain
    \/ ManagedDriverExit

RerunSpec == Init /\ [][RerunNext]_vars

----------------------------------------------------------------------------
(* run() over hundreds of clicks on a page that always shows enough cookies:
   the threshold grows until threshold * 1.5 is no longer exact *)

MaxLongClicks == 330

LongTexts ==
    { <<"9", ",", "9", "9", "9", ",", "9", "9", "9", " ">> \o Cookies }

\* the product priced 1, or the one priced 25
LongLists == { <<Len(ProductTexts)>>, <<4>> }

LongStart == RunStartIn({1})

LongIteration ==
    Iterate(MaxLongClicks, 0..MaxTick, {TRUE}, LongTexts, LongLists)

LongExit == Exit(0..MaxTick, {<<>>})

LongNext ==
    \/ ManagedDriverEnter
    \/ Setup
    \/ LongStart
    \/ LongIteration
    \/ LongExit
    \/ ManagedDriverExit

LongSpec == Init /\ [][LongNext]_vars

----------------------------------------------------------------------------
(* src/cookie_clicker.py: the script that clicks and buys in one endless loop.
   counter is the float 1.6 at first; counter * 10 is then the float 16.0, as
   in exact arithmetic, and every later value is a whole number *)

MaxScriptClicks == 4

\* counter * 10
TimesTen(c) ==
    IF (10 * c.num) % c.den = 0 THEN Num((10 * c.num) \div c.den)
    ELSE [num |-> 10 * c.num, den |-> c.den]

\* what the element with id "cookies" may show to the script
ScriptTexts ==
    { <<"5", " ">> \o Cookies,
      <<"2", "5", "\n">> \o Cookies,
      <<"3", "0", "0", " ">> \o Cookies,
      <<>> }

\* find_elements(By.CLASS_NAME, "enabled"), as lists of product handles
ScriptLists == { <<>>, <<1, 2, 3>>, <<4>>, <<6>>, <<9>>, <<10>>, <<7, 2>> }

\* the for loop over buy_buttons, from the i-th button on; it has no try: the
\* ValueError of int() leaves the script
RECURSIVE ScriptScanFrom(_, _, _, _)
ScriptScanFrom(buy_buttons, i, max_price, most_expensive) ==
    IF i > Len(buy_buttons)
    THEN [product |-> most_expensive, price |-> max_price, error |-> "none"]
    ELSE LET p == PriceOf(buy_buttons[i]) IN
         IF p.error # "none"
         THEN [product |-> None, price |-> 0, error |-> p.error]
         ELSE IF p.priced /\ p.price > max_price
              THEN ScriptScanFrom(buy_buttons, i + 1, p.price, buy_buttons[i])
              ELSE ScriptScanFrom(buy_buttons, i + 1, max_price, most_expensive)

ScriptNoBuy(c, cookies, error) ==
    [counter |-> c, cookies |-> cookies, clicks |-> <<>>, completed |-> 0,
     error |-> error]

\* one pass of the while loop after cookie_button.click(): the parse, the gate
\* counter * 10 < no_of_cookies, the scan and most_expensive.click()
ScriptPass(c, text, buy_buttons, clickOk) ==
    LET read == ParseCookieCount(text) IN
    IF read.error \in {"ValueError", "IndexError"}
    THEN ScriptNoBuy(c, 0, "none")
    ELSE IF Less(TimesTen(c), Num(read.value))
    THEN LET found == ScriptScanFrom(buy_buttons, 1, 0, None) IN
         IF found.error # "none" THEN ScriptNoBuy(c, read.value, found.error)
         ELSE IF found.product = None
         THEN ScriptNoBuy(c, read.value, "AttributeError")
         ELSE IF ~clickOk
         THEN [ScriptNoBuy(c, read.value, "StaleElement")
                  EXCEPT !.clicks = <<found.product>>]
         ELSE [counter |-> TimesTen(c), cookies |-> read.value,
               clicks |-> <<found.product>>, completed |-> 1,
               error |-> "none"]
    ELSE ScriptNoBuy(c, read.value, "none")

ScriptInit ==
    /\ pc = "script_start"
    /\ FreshBot
    /\ pure = NoEval
    /\ counter = InitialCounter

\* driver = webdriver.Chrome(...); driver.implicitly_wait(20)
ScriptOpen ==
    /\ pc = "script_start"
    /\ \E created \in BOOLEAN :
          IF created
          THEN pc' = "script_opened" /\ driver' = "open" /\ raised' = raised
          ELSE /\ pc' = "script_crashed"
               /\ driver' = driver
               /\ raised' = "SessionNotCreatedException"
    /\ UNCHANGED <<botVars, runVars, game, quits, pure, counter>>

\* driver.get(...), the two waits, the language button, the elements of the
\* loop, counter = 1.6
ScriptSetup ==
    /\ pc = "script_opened"
    /\ \E page \in {"ready", "no_language_button", "no_big_cookie"} :
          /\ game' = page
          /\ pc' = IF page = "ready" THEN "script_loop" ELSE "script_crashed"
          /\ raised' = IF page = "ready" THEN raised ELSE "TimeoutException"
    /\ counter' = InitialCounter
    /\ UNCHANGED <<botVars, runVars, driver, quits, pure>>

\* one pass of while True; an exception leaves the script, and with it the
\* statements after the loop
ScriptIteration ==
    /\ pc = "script_loop"
    /\ clicked < MaxScriptClicks
    /\ \E primaryOk \in BOOLEAN :
          IF ~primaryOk
          THEN /\ pc' = "script_crashed"
               /\ raised' = "WebDriverException"
               /\ call' = NoCall
               /\ UNCHANGED <<clicked, bought, counter>>
          ELSE \E text \in ScriptTexts, buy_buttons \in ScriptLists :
               \E clickOk \in IF ScriptPass(counter, text, buy_buttons,
                                             TRUE).completed = 1
                               THEN BOOLEAN ELSE {TRUE} :
                  LET r == ScriptPass(counter, text, buy_buttons, clickOk) IN
                  /\ clicked' = clicked + 1
                  /\ bought' = bought + r.completed
                  /\ counter' = r.counter
                  /\ call' = CallOf(text, buy_buttons, counter, 0,
                                    clicked + 1, r)
                  /\ raised' = r.error
                  /\ pc' = IF r.error = "none" THEN pc ELSE "script_crashed"
    /\ UNCHANGED <<botVars, duration, elapsed, progress, reports, events,
                   checks, run_calls, game, driver, quits, pure>>

ScriptNext == ScriptOpen \/ ScriptSetup \/ ScriptIteration

ScriptSpec == ScriptInit /\ [][ScriptNext]_vars

----------------------------------------------------------------------------
(* The functions of the page on their own, over all short texts and lists *)

TextAlphabet == {"1", "0", ",", " ", "c", "-"}

AllTexts == UNION {[1..n -> TextAlphabet] : n \in 0..MaxTextLen}

HandleLists == UNION {[1..n -> Products] : n \in 0..MaxProducts}

Pending(fn, arg) == [fn |-> fn, arg |-> arg, done |-> FALSE, out |-> <<>>]

\* _try_purchase on a fresh bot: the text of the counter, the enabled
\* products, and whether the product click returns
TryPurchaseArgs(t, l, ok) == [text |-> t, products |-> l, clickOk |-> ok]

PureInit ==
    /\ pc = "start"
    /\ FreshBot
    /\ \/ \E t \in AllTexts \cup CookieTexts :
             pure = Pending("get_cookie_count", t)
       \/ \E l \in HandleLists :
             pure = Pending("find_most_expensive_product", l)
       \/ \E t \in CadenceTexts, l \in HandleLists, ok \in BOOLEAN :
             /\ Len(l) < MaxProducts
             /\ pure = Pending("_try_purchase", TryPurchaseArgs(t, l, ok))
    /\ counter = InitialCounter

EvalCookieCount ==
    /\ pure.fn = "get_cookie_count"
    /\ ~pure.done
    /\ pure' = [pure EXCEPT !.done = TRUE, !.out = get_cookie_count(pure.arg)]
    /\ UNCHANGED <<pc, botVars, runVars, game, driver, quits, raised, counter>>

EvalMostExpensive ==
    /\ pure.fn = "find_most_expensive_product"
    /\ ~pure.done
    /\ pure' = [pure EXCEPT !.done = TRUE,
                            !.out = find_most_expensive_product(pure.arg)]
    /\ UNCHANGED <<pc, botVars, runVars, game, driver, quits, raised, counter>>

EvalTryPurchase ==
    /\ pure.fn = "_try_purchase"
    /\ ~pure.done
    /\ pure' = [pure EXCEPT
                  !.done = TRUE,
                  !.out = TryPurchase(Num(InitialThreshold), 0, pure.arg.text,
                                      pure.arg.products, pure.arg.clickOk)]
    /\ UNCHANGED <<pc, botVars, runVars, game, driver, quits, raised, counter>>

PureNext == EvalCookieCount \/ EvalMostExpensive \/ EvalTryPurchase

PureSpec == PureInit /\ [][PureNext]_vars

----------------------------------------------------------------------------
(* managed_driver(browser) for the names a caller may write, the body of the
   with block being the bot's *)

CallerBrowserNames ==
    BrowserNames \cup
    { <<"F", "I", "R", "E", "F", "O", "X">>,
      <<"c", "h", "r", "o", "m", "e", " ">>,
      <<"c", "h", "r", "o", "m", "i", "u", "m">>,
      <<"e", "d", "g", "e">>,
      <<>> }

DriverInit ==
    /\ pc = "start"
    /\ FreshBot
    /\ counter = InitialCounter
    /\ pure \in {Pending("managed_driver", b) : b \in CallerBrowserNames}

DriverEnter == ManagedDriverEnterWith({pure.arg})

DriverNext ==
    \/ DriverEnter
    \/ Setup
    \/ CadenceStart
    \/ CadenceIteration
    \/ CadenceExit
    \/ ManagedDriverExit

DriverSpec == DriverInit /\ [][DriverNext]_vars

----------------------------------------------------------------------------
(* Properties of _try_purchase *)

\* the price a product shows: its last line, commas removed, when all digits
HasPrice(p) ==
    LET parts == SplitLines(ProductTexts[p]) IN
    IsDigit(RemoveCommas(parts[Len(parts)]))

ProductPrice(p) ==
    LET parts == SplitLines(ProductTexts[p]) IN
    DigitsValue(RemoveCommas(parts[Len(parts)]))

\* the products of a list that show a price of at most c
AffordableIn(products, c) ==
    {i \in 1..Len(products) :
        HasPrice(products[i]) /\ ProductPrice(products[i]) <= c}

\* the last iteration called _try_purchase and it clicked a product
Dispatched == call.made /\ call.clicks # <<>>

\* ... and the click returned
Purchased == Dispatched /\ call.error = "none"

\* the text of the cookie counter has no token, or its first token without
\* commas is no integer literal
Unparseable(text) ==
    \/ \A i \in 1..Len(text) : text[i] \in Whitespace
    \/ ~IsIntLiteral(RemoveCommas(Split(text)[1]))

\* C1: a product is clicked only if its price is at most the cookie count read
\* at the start of the same call
C1_BuyOnlyWhenAffordable ==
    Dispatched =>
        \A i \in 1..Len(call.clicks) :
            /\ HasPrice(call.clicks[i])
            /\ ProductPrice(call.clicks[i]) <= call.cookies
            /\ call.cookies = get_cookie_count(call.text).value

C1_Witness ==
    /\ Dispatched
    /\ Len(call.products) >= 2
    /\ ProductPrice(call.clicks[1]) < call.cookies

\* C2: purchase_threshold never decreases, whatever step is taken
C2_ThresholdNeverDecreases ==
    [][~Less(purchase_threshold', purchase_threshold)]_vars

C2_Witness ==
    /\ Purchased
    /\ purchase_count >= 2
    /\ Less(call.threshold_before, purchase_threshold)

\* C3: when the cookie count passes the threshold and some enabled product is
\* affordable, the call clicks the most expensive of the affordable products
C3_BuysMostExpensiveAffordable ==
    ( /\ call.made
      /\ PassesGate(call.cookies, call.threshold_before)
      /\ AffordableIn(call.products, call.cookies) # {} )
    => /\ Len(call.clicks) = 1
       /\ \A i \in AffordableIn(call.products, call.cookies) :
             ProductPrice(call.products[i]) <= ProductPrice(call.clicks[1])
       /\ ProductPrice(call.clicks[1]) <= call.cookies

\* C4: a call clicks at most one product
C4_AtMostOneBuyPerCall == call.made => Len(call.clicks) <= 1

C4_Witness ==
    /\ Dispatched
    /\ Cardinality(AffordableIn(call.products, call.cookies)) >= 2

\* C5: after a buy at price p with threshold t before the call, the threshold
\* is max(2 * p, 1.5 * t); the example of the specification gives 500
C5_ThresholdAfterBuy ==
    Purchased =>
        LET p == ProductPrice(call.clicks[1])
            t == call.threshold_before
            n == purchase_threshold
        IN  /\ n.num >= 2 * p * n.den
            /\ 2 * t.den * n.num >= 3 * t.num * n.den
            /\ \/ n.num = 2 * p * n.den
               \/ 2 * t.den * n.num = 3 * t.num * n.den
            /\ ( /\ call.products = <<1, 2, 3>>
                 /\ call.cookies = 300
                 /\ t = Num(50) )
               => call.clicks = <<2>> /\ n = Num(500)

C5_Witness ==
    /\ Purchased
    /\ call.products = <<1, 2, 3>>
    /\ call.cookies = 300
    /\ call.threshold_before = Num(50)
    /\ purchase_threshold = Num(500)

\* C6: a call that buys leaves the threshold strictly greater than before
C6_BuyRaisesThreshold ==
    Purchased => Less(call.threshold_before, purchase_threshold)

C6_Witness ==
    /\ Purchased
    /\ Less(Num(2 * ProductPrice(call.clicks[1])), call.threshold_before)

\* C7: past the gate, with no enabled product or with every enabled product
\* priced above the cookie count, nothing is clicked and the threshold and the
\* purchase count stay as they were
C7_NothingAffordableNoAction ==
    ( /\ call.made
      /\ ~Less(Num(call.cookies), call.threshold_before)
      /\ \A i \in 1..Len(call.products) :
            /\ HasPrice(call.products[i])
            /\ ProductPrice(call.products[i]) > call.cookies )
    => /\ call.clicks = <<>>
       /\ call.error = "none"
       /\ purchase_threshold = call.threshold_before
       /\ purchase_count = call.purchase_count_before

C7_Witness ==
    /\ call.made
    /\ ~Less(Num(call.cookies), call.threshold_before)
    /\ call.products # <<>>
    /\ \A i \in 1..Len(call.products) :
          HasPrice(call.products[i]) /\ ProductPrice(call.products[i]) > call.cookies
    /\ call.clicks = <<>>

\* C8: below the threshold the call clicks nothing and leaves the threshold,
\* the purchase count and the click count alone; the same call made again on
\* the state it left changes nothing either
C8_BelowThresholdNoOp ==
    ( /\ call.made
      /\ Less(Num(get_cookie_count(call.text).value), call.threshold_before) )
    => /\ call.clicks = <<>>
       /\ call.error = "none"
       /\ purchase_threshold = call.threshold_before
       /\ purchase_count = call.purchase_count_before
       /\ click_count = call.click_count_before
       /\ \A ok \in BOOLEAN :
             LET again == TryPurchase(purchase_threshold, purchase_count,
                                      call.text, call.products, ok)
             IN  /\ again.threshold = purchase_threshold
                 /\ again.purchase_count = purchase_count
                 /\ again.clicks = <<>>

C8_Witness ==
    /\ call.made
    /\ call.cookies > 0
    /\ Less(Num(call.cookies), call.threshold_before)
    /\ AffordableIn(call.products, call.cookies) # {}
    /\ call.clicks = <<>>

\* C9: purchase_count is the number of product clicks that completed
C9_PurchaseCountIsCompletedBuys == purchase_count = bought

C9_Witness ==
    /\ call.made
    /\ call.error = "StaleElement"
    /\ purchase_count >= 1
    /\ purchase_count = call.purchase_count_before

\* C10: a cookie text that does not parse raises nothing out of the call, reads
\* as 0, and the call clicks nothing and leaves the threshold alone
C10_ParseFailureSkipsCycle ==
    (call.made /\ Unparseable(call.text))
    => /\ call.error = "none"
       /\ call.cookies = 0
       /\ call.clicks = <<>>
       /\ purchase_threshold = call.threshold_before
       /\ purchase_count = call.purchase_count_before
       /\ pc = "running"

C10_Witness ==
    /\ call.made
    /\ Split(call.text) = <<>>
    /\ call.products # <<>>
    /\ \A i \in 1..Len(call.products) : HasPrice(call.products[i])
    /\ pc = "running"

----------------------------------------------------------------------------
(* Properties of the parsing functions *)

\* the text starts with digits and commas, a digit first and last, then has
\* whitespace at position k and something after it
WellFormedAt(text, k) ==
    /\ text[k] \in Whitespace
    /\ \A i \in 1..(k - 1) : text[i] \in Digits \cup {","}
    /\ text[1] \in Digits
    /\ text[k - 1] \in Digits
    /\ \E j \in (k + 1)..Len(text) : text[j] \notin Whitespace

WellFormed(text) == \E k \in 2..Len(text) : WellFormedAt(text, k)

LeadingNumber(text) ==
    LET k == CHOOSE k \in 2..Len(text) : WellFormedAt(text, k) IN
    DigitsValue(SelectSeq(SubSeq(text, 1, k - 1), LAMBDA c : c \in Digits))

CookieCountDone == pure.done /\ pure.fn = "get_cookie_count"

\* C11: get_cookie_count returns the number in the leading token, commas
\* removed, of a text <digits and commas> <whitespace> <suffix>, and 0 for a
\* text that is empty, all whitespace or whose leading token is no integer; it
\* raises in neither case
C11_CookieCountParsing ==
    CookieCountDone =>
        /\ pure.out.error = "none"
        /\ WellFormed(pure.arg) => pure.out.value = LeadingNumber(pure.arg)
        /\ Unparseable(pure.arg) => pure.out.value = 0

C11_Witness ==
    /\ CookieCountDone
    /\ WellFormed(pure.arg)
    /\ \E i \in 1..Len(pure.arg) : pure.arg[i] = ","
    /\ pure.out.value = 10

\* the last line of a text: what follows its last line break
LastLine(text) ==
    LET breaks == {i \in 1..Len(text) : text[i] = "\n"}
        start == IF breaks = {} THEN 1
                 ELSE 1 + CHOOSE i \in breaks : \A j \in breaks : j <= i
    IN  SubSeq(text, start, Len(text))

\* the last line, commas removed, is a token of decimal digits
AllDigitPrice(p) ==
    LET t == SelectSeq(LastLine(ProductTexts[p]), LAMBDA c : c # ",") IN
    t # <<>> /\ \A i \in 1..Len(t) : t[i] \in Digits

ShownPrice(p) ==
    DigitsValue(SelectSeq(LastLine(ProductTexts[p]), LAMBDA c : c \in Digits))

\* the highest price shown by the products of a list, 0 if none shows one
HighestPrice(products) ==
    LET prices == {ShownPrice(products[i]) :
                      i \in {j \in 1..Len(products) : AllDigitPrice(products[j])}}
    IN  IF prices = {} THEN 0 ELSE CHOOSE m \in prices : \A q \in prices : q <= m

MostExpensiveDone == pure.done /\ pure.fn = "find_most_expensive_product"

\* C12: find_most_expensive_product raises on no product text, returns no
\* product whose last line, commas removed, is not all digits, and skips such
\* products only: the price returned is the highest one shown in the list
C12_BadPriceTextSkipped ==
    MostExpensiveDone =>
        /\ pure.out.error = "none"
        /\ pure.out.product # None =>
              /\ \E i \in 1..Len(pure.arg) : pure.arg[i] = pure.out.product
              /\ AllDigitPrice(pure.out.product)
              /\ ShownPrice(pure.out.product) = pure.out.price
        /\ pure.out.price = HighestPrice(pure.arg)
        /\ pure.out.price > 0 => pure.out.product # None

C12_Witness ==
    /\ MostExpensiveDone
    /\ Len(pure.arg) >= 2
    /\ ~AllDigitPrice(pure.arg[1])
    /\ \E i \in 1..(Len(pure.arg) - 1) :
          ~AllDigitPrice(pure.arg[i]) /\ pure.out.product = pure.arg[i + 1]

----------------------------------------------------------------------------
(* Properties of run(), setup() and managed_driver() *)

\* C13: a product click that fails with a stale element is a no-op for the
\* cycle: the counters stay and run() goes on clicking
C13_StaleBuyIsNoOp ==
    (call.made /\ call.error = "StaleElement")
    => /\ pc = "running"
       /\ raised = "none"
       /\ purchase_count = call.purchase_count_before
       /\ purchase_threshold = call.threshold_before

\* C14: however run() ends once its loop was entered, the final summary was
\* printed, with the click and purchase counts of that moment
C14_SummaryOnEveryEnd ==
    (checks > 0 /\ pc \in {"done", "aborted", "exited"})
    => /\ Len(reports) = 1
       /\ reports[1].clicks = click_count
       /\ reports[1].purchases = purchase_count

\* C15: when the language button or the big cookie does not appear in time,
\* setup() raises to the caller of main() and nothing is ever clicked
C15_NotReadyNoClicks ==
    game \in {"no_language_button", "no_big_cookie"}
    => /\ pc \in {"not_ready", "exited"}
       /\ raised = "TimeoutException"
       /\ checks = 0
       /\ click_count = 0
       /\ clicked = 0
       /\ bought = 0

C15_Witness ==
    /\ game = "no_big_cookie"
    /\ pc = "exited"
    /\ raised = "TimeoutException"

\* C16: with calls that return and a clock that advances, run() leaves its
\* loop, at the first check that finds the duration elapsed, and prints the
\* summary once
C16_RunTerminates ==
    /\ (pc = "running") ~> (pc = "done")
    /\ [](pc \in {"done", "exited"} /\ checks > 0
            => Len(reports) = 1 /\ elapsed >= duration)
    /\ [](Len(reports) <= 1)
    /\ [][(pc = "running" /\ checks' > checks)
            => IF elapsed' >= duration
               THEN pc' = "done" /\ clicked' = clicked
               ELSE pc' = "running" /\ clicked' = clicked + 1]_vars

C16_Witness ==
    /\ pc = "done"
    /\ clicked >= PurchaseEvery
    /\ purchase_count = 1
    /\ Len(reports) = 1

\* C17: run(0) on a fresh bot ends at its first loop check: no click, no
\* purchase check, and a summary that shows the clicks made, none
C17_RunZero ==
    [][(pc = "running" /\ duration = 0)
         => /\ pc' = "done"
            /\ checks = 0 /\ checks' = 1
            /\ clicked' = 0 /\ click_count' = 0
            /\ ~call'.made /\ events' = <<>>
            /\ Len(reports') = 1
            /\ reports'[1].clicks = clicked']_vars

C17_Witness ==
    /\ pc = "done"
    /\ duration = 0
    /\ Len(reports) = 1
    /\ reports[1].clicks = 0
    /\ clicked = 0

\* C18: an iteration calls _try_purchase exactly when the click count after
\* its click is a multiple of 10, prints a progress line exactly when it is a
\* multiple of 100, and does so in the order click, purchase check, report
C18_Cadence ==
    events # <<>>
    => /\ events[1] = "click"
       /\ (\E i \in 1..Len(events) : events[i] = "try_purchase")
             <=> (click_count % 10 = 0)
       /\ (\E i \in 1..Len(events) : events[i] = "report")
             <=> (click_count % 100 = 0)
       /\ \A i, j \in 1..Len(events) :
             (events[i] = "try_purchase" /\ events[j] = "report") => i < j

\* C19: the loop check comes once before every click; a click is made only
\* after a check that found time left; the run ends only by a check that found
\* the duration elapsed, and no click or buy follows it
C19_TimeCheckOnly ==
    [][ /\ (clicked' > clicked \/ bought' > bought)
            => /\ pc = "running"
               /\ checks' = checks + 1
               /\ clicked' = clicked + 1
               /\ elapsed' < duration
        /\ (pc' = "done" /\ pc # "done")
            => /\ pc = "running"
               /\ checks' = checks + 1
               /\ elapsed' >= duration
        /\ (pc = "running" /\ checks' > checks /\ elapsed' >= duration)
            => pc' = "done"
        /\ pc \in {"done", "exited"}
            => clicked' = clicked /\ bought' = bought /\ checks' = checks ]_vars

C19_Witness ==
    /\ pc = "done"
    /\ clicked >= PurchaseEvery
    /\ bought >= 1
    /\ checks = clicked + 1
    /\ elapsed >= duration

\* C20: driver.quit() is called once when the with block is left, however its
\* body ended, if a driver was created, and is never called otherwise
C20_QuitExactlyOnce ==
    /\ quits <= 1
    /\ pc # "exited" =>
          /\ quits = 0
          /\ (driver = "open") <=> (pc \notin {"start", "create_failed"})
    /\ pc = "exited" =>
          /\ driver \in {"none", "quit"}
          /\ (driver = "quit") <=> (quits = 1)
          /\ (driver = "none")
                <=> (raised \in {"ValueError", "SessionNotCreatedException"})

C20_Witness ==
    /\ pc = "exited"
    /\ raised = "StaleElement"
    /\ quits = 1

----------------------------------------------------------------------------
(* Properties of the product selection *)

\* the positions of a list whose product shows the highest price of the list
Dearest(products) ==
    {i \in 1..Len(products) :
        /\ AllDigitPrice(products[i])
        /\ ShownPrice(products[i]) = HighestPrice(products)}

\* C21: the product returned is a function of the ordered list alone: of the
\* products that show the highest price, the one that comes first in the list
C21_FirstSeenWins ==
    (MostExpensiveDone /\ pure.out.product # None)
    => \E i \in Dearest(pure.arg) :
          /\ pure.out.product = pure.arg[i]
          /\ \A j \in Dearest(pure.arg) : i <= j

C21_Witness ==
    /\ MostExpensiveDone
    /\ \E i, j \in Dearest(pure.arg) :
          /\ i < j
          /\ pure.arg[i] # pure.arg[j]
          /\ pure.out.product = pure.arg[i]
          /\ pure.arg[j] < pure.arg[i]

----------------------------------------------------------------------------
(* Properties of the bot's counters *)

\* C22: click_count is the number of primary clicks that completed; it changes
\* only in a pass of the loop, by one, with the click; the purchase check, the
\* progress line and the final summary leave it as the click left it
C22_ClickCountIsClicks ==
    /\ [](click_count = clicked)
    /\ [][ /\ click_count' # click_count
               => /\ pc = "running"
                  /\ checks' = checks + 1
                  /\ events' # <<>> /\ events'[1] = "click"
                  /\ click_count' = click_count + 1
                  /\ clicked' = clicked + 1
           /\ call'.made => click_count' = call'.click_count_before
           /\ progress' # progress => click_count' = clicked'
           /\ reports' # reports
               => /\ click_count' = click_count
                  /\ reports'[Len(reports')].clicks = click_count ]_vars

C22_Witness ==
    /\ pc = "done"
    /\ progress >= 1
    /\ purchase_count >= 1
    /\ click_count = ReportEvery
    /\ reports[1].clicks = click_count

----------------------------------------------------------------------------
(* Properties of the script src/cookie_clicker.py *)

\* the pass got past the gate counter * 10 < no_of_cookies
ScriptGatePassed ==
    /\ call.made
    /\ ParseCookieCount(call.text).error = "none"
    /\ Less(TimesTen(call.threshold_before), Num(call.cookies))

\* C23: past the gate, with no enabled button or none that shows a valid
\* price, the script clicks no button, does not crash and stays in its loop
C23_ScriptNoButtonNoCrash ==
    ( /\ ScriptGatePassed
      /\ \A i \in 1..Len(call.products) : ~AllDigitPrice(call.products[i]) )
    => /\ call.clicks = <<>>
       /\ call.error = "none"
       /\ raised = "none"
       /\ pc = "script_loop"

\* C24: the script clicks a button only when the cookie count it parsed is at
\* least the price that button shows
C24_ScriptBuyOnlyWhenAffordable ==
    (call.made /\ call.clicks # <<>>)
    => \A i \in 1..Len(call.clicks) :
          /\ AllDigitPrice(call.clicks[i])
          /\ ShownPrice(call.clicks[i]) <= call.cookies

\* C25: on every way out of the script, an exception from inside the loop
\* included, the browser session it opened has been quit
C25_ScriptQuitsOnEveryExit ==
    (pc = "script_crashed" /\ raised \notin {"SessionNotCreatedException"})
    => driver = "quit" /\ quits = 1

----------------------------------------------------------------------------
(* Properties of the purchase threshold *)

\* C26: purchase_threshold is at least 10, its first value, in every state, so
\* the count 0 that stands for a cookie text that does not parse never passes
\* the gate cookies >= purchase_threshold
C26_ThresholdAtLeastInitial ==
    /\ ~Less(purchase_threshold, Num(10))
    /\ ~PassesGate(0, purchase_threshold)
    /\ (call.made /\ Unparseable(call.text))
          => /\ call.cookies = 0
             /\ ~Less(call.threshold_before, Num(10))
             /\ ~PassesGate(call.cookies, call.threshold_before)
             /\ call.clicks = <<>>

C26_Witness ==
    /\ call.made
    /\ Unparseable(call.text)
    /\ call.products # <<>>
    /\ purchase_count >= 1
    /\ Less(Num(10), purchase_threshold)
    /\ call.clicks = <<>>

\* C27: on a bot that run() is called on any number of times, purchase_count
\* is at most floor(click_count / 10): a buy is made only in the pass whose
\* click brings the carried-over count to a multiple of 10, one at most
C27_PurchasesPerTenClicks ==
    /\ [](purchase_count <= click_count \div 10)
    /\ [][purchase_count' # purchase_count
            => /\ purchase_count' = purchase_count + 1
               /\ click_count' = click_count + 1
               /\ click_count' % 10 = 0]_vars

C27_Witness ==
    /\ run_calls >= 2
    /\ Len(reports) >= 1
    /\ reports[1].clicks % 10 # 0
    /\ reports[1].purchases = 0
    /\ Purchased
    /\ purchase_count = 1
    /\ click_count = 10

\* 3^n times b
RECURSIVE TimesThreeTo(_, _)
TimesThreeTo(b, n) == IF n = 0 THEN b ELSE TimesThreeTo(TimesThree(b), n - 1)

\* 10 * 1.5^n, exactly: 10 * 3^n * 2^(-n)
InitialTimesOneAndHalfTo(n) ==
    [man |-> TimesThreeTo(BitsOf(10), n), exp |-> 0 - n]

\* the threshold is at least twice every price paid so far
ThresholdCoversPaid == ~Less(purchase_threshold, Num(2 * highest_paid))

\* a buy is made at a cookie reading of at least twice every price paid before
BuyAtTwicePaid ==
    purchase_count' > purchase_count
    => ~Less(Num(call'.cookies), Num(2 * highest_paid))

\* C28 as amended: after a buy at price p the threshold is at least 2 * p in
\* every later state, every later buy is made at a cookie reading of at least
\* 2 * p, and after n <= 31 purchases the threshold is at least 10 * 1.5^n
C28_ThresholdCoversEarlierBuys ==
    /\ []ThresholdCoversPaid
    /\ [][BuyAtTwicePaid]_vars
    /\ [](purchase_count <= 31
            => ~Less(purchase_threshold,
                     InitialTimesOneAndHalfTo(purchase_count)))

C28_Witness ==
    /\ Purchased
    /\ purchase_count = 31
    /\ highest_paid = 25
    /\ call.clicks = <<Len(ProductTexts)>>
    /\ IsDouble(purchase_threshold)

\* C28 as stated: the same, with the threshold at least 10 * 1.5^n after any
\* number n of purchases
C28_ThresholdGrowth ==
    /\ []ThresholdCoversPaid
    /\ [][BuyAtTwicePaid]_vars
    /\ [](~Less(purchase_threshold, InitialTimesOneAndHalfTo(purchase_count)))

\* no product of the list shows an all-digit price greater than 0
NoPositivePrice(products) ==
    \A i \in 1..Len(products) :
        ~(AllDigitPrice(products[i]) /\ ShownPrice(products[i]) > 0)

TryPurchaseDone == pure.done /\ pure.fn = "_try_purchase"

\* C29: find_most_expensive_product returns (None, 0) exactly when no product
\* of the list shows an all-digit price greater than 0, so a product priced 0
\* is never returned; _try_purchase then clicks nothing and changes nothing
C29_NoneIffNoPositivePrice ==
    /\ MostExpensiveDone
          => /\ (pure.out.product = None /\ pure.out.price = 0)
                   <=> NoPositivePrice(pure.arg)
             /\ pure.out.product = None <=> pure.out.price = 0
             /\ pure.out.product # None => ShownPrice(pure.out.product) > 0
    /\ (TryPurchaseDone /\ NoPositivePrice(pure.arg.products))
          => /\ pure.out.clicks = <<>>
             /\ pure.out.completed = 0
             /\ pure.out.error = "none"
             /\ pure.out.threshold = Num(InitialThreshold)
             /\ pure.out.purchase_count = 0

C29_Witness ==
    /\ TryPurchaseDone
    /\ PassesGate(pure.out.cookies, Num(InitialThreshold))
    /\ Len(pure.arg.products) >= 2
    /\ \E i \in 1..Len(pure.arg.products) :
          /\ AllDigitPrice(pure.arg.products[i])
          /\ ShownPrice(pure.arg.products[i]) = 0
    /\ NoPositivePrice(pure.arg.products)
    /\ pure.out.clicks = <<>>

----------------------------------------------------------------------------
(* Properties of managed_driver *)

\* the same letter, in either case
SameLetter(c, d) ==
    \/ c = d
    \/ \E i \in 1..Len(UpperLetters) :
          {c, d} = {UpperLetters[i], LowerLetters[i]}

\* the same name but for the case of its letters
SameName(a, b) ==
    Len(a) = Len(b) /\ \A i \in 1..Len(a) : SameLetter(a[i], b[i])

Supported(browser) == SameName(browser, Chrome) \/ SameName(browser, Firefox)

\* the with block was never entered: nothing of its body has happened
BodyNeverRan ==
    /\ pc \in {"create_failed", "exited"}
    /\ game = "loading"
    /\ run_calls = 0
    /\ checks = 0
    /\ clicked = 0
    /\ bought = 0
    /\ reports = <<>>

\* C30: managed_driver raises ValueError for a name that is neither chrome
\* nor firefox in any case of letters, and only for such a name; then, and
\* when the creation of the driver raises, no driver exists, the body of the
\* with block never runs and driver.quit() is not called
C30_UnsupportedBrowser ==
    pc # "start"
    => /\ (raised = "ValueError") <=> ~Supported(pure.arg)
       /\ raised \in {"ValueError", "SessionNotCreatedException"}
             => /\ BodyNeverRan
                /\ driver = "none"
                /\ quits = 0

C30_Witness ==
    /\ pc = "exited"
    /\ raised = "ValueError"
    /\ pure.arg = <<"c", "h", "r", "o", "m", "e", " ">>
    /\ quits = 0

====
